---- MODULE Spec2Model ----
(***************************************************************************)
(* The two data-poisoning notebooks of cvxpylayers                         *)
(*   src/examples/tf/data_poisoning_attack.ipynb   (TensorFlow, "tf")      *)
(*   src/unnamed/part_000                          (PyTorch,    "torch")   *)
(* as one Jupyter kernel executing the notebook's code cells statement by  *)
(* statement.  The kernel state is the namespace of Python names, the      *)
(* matplotlib figure, the files written and a log of the library calls.    *)
(* Numbers are integers or rationals <<p, q>>; the results of the external *)
(* libraries (solutions of the convex program, loss values, gradients) are *)
(* symbolic terms built from the operands the code hands to them.          *)
(***************************************************************************)
EXTENDS Integers, Sequences, FiniteSets, TLC

-----------------------------------------------------------------------------
(* Bounds and program constants *)

\* number of samples drawn by make_blobs (the notebooks use 60)
N == 5

\* feature dimension
n == 2

\* alternative outcomes of the Gaussian noise of make_blobs
NoiseDraws == {0, 1}

Frameworks == {"tf", "torch"}

-----------------------------------------------------------------------------
(* Sequences and namespaces *)

Range(s) == {s[k] : k \in DOMAIN s}

\* numpy fancy indexing with an index sequence: arr[idx]
Take(arr, idx) == [k \in 1..Len(idx) |-> arr[idx[k]]]

\* the sub-sequence of s at the positions where keep holds
RECURSIVE SelectAt(_, _, _)
SelectAt(s, keep, k) ==
  IF k > Len(s) THEN <<>>
  ELSE (IF keep[k] THEN <<s[k]>> ELSE <<>>) \o SelectAt(s, keep, k + 1)

\* name = value in the kernel namespace
Bind(ns, name, val) ==
  [x \in (DOMAIN ns) \cup {name} |-> IF x = name THEN val ELSE ns[x]]

RECURSIVE BindAll(_, _)
\* binds is a sequence of <<name, value>>
BindAll(ns, binds) ==
  IF binds = <<>> THEN ns
  ELSE BindAll(Bind(ns, binds[1][1], binds[1][2]), Tail(binds))

Defined(ns, name) == name \in DOMAIN ns

-----------------------------------------------------------------------------
(* What the seeded random stream yields: np.random.seed(0) fixes the       *)
(* labels' shuffle and the noise of make_blobs and the permutation of      *)
(* train_test_split.                                                        *)

\* make_blobs: n_samples_per_center = [N // 2] * 2, the first N % 2 centers
\* get one more; the samples are shuffled
BlobCount(c) == (N \div 2) + (IF c < N % 2 THEN 1 ELSE 0)

LabelVectors ==
  {y \in [1..N -> {0, 1}] : Cardinality({k \in 1..N : y[k] = 0}) = BlobCount(0)}

\* the permutations train_test_split may draw: the rotations of 1..N and
\* their reversals
Rotation(r) == [k \in 1..N |-> ((k + r - 1) % N) + 1]
Reversed(p) == [k \in 1..N |-> p[N + 1 - k]]
SplitPermutations == {Rotation(r) : r \in 0..(N - 1)} \cup
                {Reversed(Rotation(r)) : r \in 0..(N - 1)}

Streams == [y : LabelVectors, noise : NoiseDraws, perm : SplitPermutations]

centers == <<(<<2, 2>>), (<<-2, -2>>)>>

\* the noise added to sample k in draw d (cluster_std = 3): offsets that
\* keep the samples distinct points, as draws from a density are
Noise(d, k) == <<5 * k + d, ((k * (d + 1)) % 3) - 1>>

\* X, y = make_blobs(N, n, centers=..., cluster_std=3)
make_blobs(st) ==
  [X |-> [k \in 1..N |-> <<centers[st.y[k] + 1][1] + Noise(st.noise, k)[1],
                           centers[st.y[k] + 1][2] + Noise(st.noise, k)[2]>>],
   y |-> st.y]

\* sizes of train_test_split(test_size=.5): n_test = ceil(.5 * N)
NTest == (N + 1) \div 2
NTrain == N - NTest

\* ShuffleSplit: the test indices are the first n_test of the permutation,
\* the training indices the next n_train
TestIndex(st) == [k \in 1..NTest |-> st.perm[k]]
TrainIndex(st) == [k \in 1..NTrain |-> st.perm[NTest + k]]

\* Xtrain, Xtest, ytrain, ytest = train_test_split(X, y, test_size=.5)
train_test_split(X, y, st) ==
  [Xtrain |-> Take(X, TrainIndex(st)), Xtest |-> Take(X, TestIndex(st)),
   ytrain |-> Take(y, TrainIndex(st)), ytest |-> Take(y, TestIndex(st))]

-----------------------------------------------------------------------------
(* Python values *)

\* None
NoneValue ==
  [lib |-> "None", id |-> "None", dtype |-> "None", shape |-> <<>>,
   val |-> <<>>, requires_grad |-> FALSE, grad |-> <<>>, leaves |-> {}]

\* an array or tensor of library lib; id is the object's identity, grad the
\* loss terms accumulated in .grad (<<>> is None), leaves the tracked
\* tensors it was computed from
Array(lib, id, dtype, shape, val) ==
  [lib |-> lib, id |-> id, dtype |-> dtype, shape |-> shape, val |-> val,
   requires_grad |-> FALSE, grad |-> <<>>, leaves |-> {}]

Module(name) == [module |-> name]

\* tf.constant / torch.from_numpy: the same data as a tensor
to_tensor(fw, id, arr) == [arr EXCEPT !.lib = fw, !.id = id]

\* t.numpy(), t.detach().numpy()
numpy(t) == [t EXCEPT !.lib = "numpy", !.requires_grad = FALSE,
                      !.grad = <<>>, !.leaves = {}]

-----------------------------------------------------------------------------
(* cvxpy expressions: a tree of nodes *)

Node(op, kids) ==
  [op |-> op, name |-> "", num |-> <<0, 1>>, shape |-> <<>>, data |-> <<>>,
   kids |-> kids]
Variable(name, shape) == [Node("Variable", <<>>) EXCEPT !.name = name, !.shape = shape]
Parameter(name, shape) == [Node("Parameter", <<>>) EXCEPT !.name = name, !.shape = shape]
Constant(name, shape, data) ==
  [Node("Constant", <<>>) EXCEPT !.name = name, !.shape = shape, !.data = data]
Num(p, q) == [Node("Num", <<>>) EXCEPT !.num = <<p, q>>]

\* X @ a + b
Scores(X, a, b) == Node("add", <<Node("matmul", <<X, a>>), b>>)

-----------------------------------------------------------------------------
(* The statements of the cells.  A statement maps the kernel                *)
(* k = [ns, figure, files, calls] to the kernel after it; fw is the        *)
(* notebook's framework, st the seeded random stream.                       *)

\* a library call is appended to the log
Log(k, fn) == [k EXCEPT !.calls = Append(@, fn)]

\* import cvxpy as cp ... from cvxpylayers... import CvxpyLayer
StmtImports(fw, st, k) ==
  [k EXCEPT !.ns = BindAll(@, <<
     <<"cp", Module("cvxpy")>>, <<"plt", Module("matplotlib.pyplot")>>,
     <<"np", Module("numpy")>>,
     <<fw, Module(IF fw = "tf" THEN "tensorflow" ELSE "torch")>>,
     <<"CvxpyLayer", Module(IF fw = "tf" THEN "cvxpylayers.tensorflow.cvxpylayer"
                            ELSE "cvxpylayers.torch")>> >>)]

\* from sklearn... import; the seeds; n = 2; N = 60
StmtSeed(fw, st, k) ==
  [k EXCEPT !.ns = BindAll(@, <<
     <<"make_blobs", Module("sklearn.datasets")>>,
     <<"train_test_split", Module("sklearn.model_selection")>>,
     <<"n", n>>, <<"N", N>> >>)]

\* X, y = make_blobs(N, n, centers=np.array([[2, 2], [-2, -2]]), cluster_std=3)
StmtMakeBlobs(fw, st, k) ==
  LET d == make_blobs(st) IN
  Log([k EXCEPT !.ns = BindAll(@, <<
         <<"X", Array("numpy", "X", "float", <<k.ns["N"], k.ns["n"]>>, d.X)>>,
         <<"y", Array("numpy", "y", "int", <<k.ns["N"]>>, d.y)>> >>)],
      "make_blobs")

\* Xtrain, Xtest, ytrain, ytest = train_test_split(X, y, test_size=.5)
StmtTrainTestSplit(fw, st, k) ==
  LET d == train_test_split(k.ns["X"].val, k.ns["y"].val, st) IN
  Log([k EXCEPT !.ns = BindAll(@, <<
         <<"Xtrain", Array("numpy", "Xtrain", "float", <<Len(d.Xtrain), k.ns["n"]>>, d.Xtrain)>>,
         <<"Xtest", Array("numpy", "Xtest", "float", <<Len(d.Xtest), k.ns["n"]>>, d.Xtest)>>,
         <<"ytrain", Array("numpy", "ytrain", "int", <<Len(d.ytrain)>>, d.ytrain)>>,
         <<"ytest", Array("numpy", "ytest", "int", <<Len(d.ytest)>>, d.ytest)>> >>)],
      "train_test_split")

\* Xtrain, Xtest, ytrain, ytest = map(tf.constant / torch.from_numpy, [...])
StmtToTensor(fw, st, k) ==
  [k EXCEPT !.ns = BindAll(@, <<
     <<"Xtrain", to_tensor(fw, "Xtrain", k.ns["Xtrain"])>>,
     <<"Xtest", to_tensor(fw, "Xtest", k.ns["Xtest"])>>,
     <<"ytrain", to_tensor(fw, "ytrain", k.ns["ytrain"])>>,
     <<"ytest", to_tensor(fw, "ytest", k.ns["ytest"])>> >>)]

\* the test features are asked to track gradients too
RequiresGradNamesWithTest == {"Xtrain", "Xtest"}

\* the tensors of the torch notebook that are asked to track gradients
RequiresGradNames == {"Xtrain"}

\* Xtrain.requires_grad_(True)                                  (torch)
StmtRequiresGrad(fw, st, k) ==
  [k EXCEPT !.ns = [x \in DOMAIN @ |->
     IF x \in RequiresGradNames THEN [@[x] EXCEPT !.requires_grad = TRUE]
     ELSE @[x]]]

\* m = Xtrain.shape[0]
StmtShape(fw, st, k) == [k EXCEPT !.ns = Bind(@, "m", k.ns["Xtrain"].shape[1])]

\* a weight of 0.01 is handed to the layer
LambdaValueSmall == <<1, 100>>

\* the value of the regularization weights handed to the layer
LambdaValue == <<1, 10>>

\* lambda1_tf = tf.constant([[0.1]]); lambda2_tf = tf.constant([[0.1]])  (tf)
StmtLambdas(fw, st, k) ==
  [k EXCEPT !.ns = BindAll(@, <<
     <<"lambda1_tf", Array(fw, "lambda1_tf", "float", <<1, 1>>, LambdaValue)>>,
     <<"lambda2_tf", Array(fw, "lambda2_tf", "float", <<1, 1>>, LambdaValue)>> >>)]

\* a, b = cp.Variable; lambda1, lambda2 = cp.Parameter (tf); X = cp.Parameter;
\* Y = ytrain.numpy()[:, np.newaxis]
StmtDeclare(fw, st, k) ==
  LET m == k.ns["m"]
      common == <<
        <<"a", Variable("a", <<k.ns["n"], 1>>)>>,
        <<"b", Variable("b", <<1, 1>>)>>,
        <<"X", Parameter("X", <<m, k.ns["n"]>>)>>,
        <<"Y", [numpy(k.ns["ytrain"]) EXCEPT !.id = "Y", !.shape = <<m, 1>>]>> >>
      lambdas == <<
        <<"lambda1", Parameter("lambda1", <<1, 1>>)>>,
        <<"lambda2", Parameter("lambda2", <<1, 1>>)>> >>
  IN Log([k EXCEPT !.ns = BindAll(@, IF fw = "tf" THEN lambdas \o common ELSE common)],
         "cp.Variable")

\* log_likelihood = (1. / m) * cp.sum(cp.multiply(Y, X @ a + b) - ...):
\* the tf notebook subtracts log_sum_exp over [0, X @ a + b], the torch
\* notebook cp.logistic(X @ a + b)
LogLikelihood(fw, ns) ==
  LET m == ns["m"]
      z == Scores(ns["X"], ns["a"], ns["b"])
      Yc == Constant("Y", ns["Y"].shape, ns["Y"].val)
      zeros == Constant("zeros", <<m, 1>>, [i \in 1..m |-> 0])
      lse == Node("T", <<Node("log_sum_exp_axis0",
                              <<Node("T", <<Node("hstack", <<zeros, z>>)>>)>>)>>)
      softplus == IF fw = "tf" THEN lse ELSE Node("logistic", <<z>>)
  IN Node("mul", <<Num(1, m),
                   Node("sum", <<Node("sub", <<Node("multiply", <<Yc, z>>), softplus>>)>>)>>)

\* the squared penalty is put on the intercept
RegularizationOnIntercept(fw, ns) ==
  LET w1 == IF fw = "tf" THEN Node("neg", <<ns["lambda1"]>>) ELSE Num(-1, 10)
      w2 == IF fw = "tf" THEN ns["lambda2"] ELSE Num(1, 10)
  IN Node("sub", <<Node("mul", <<w1, Node("norm1", <<ns["a"]>>)>>),
                   Node("mul", <<w2, Node("sum_squares", <<ns["b"]>>)>>)>>)

\* regularization = - lambda1 * cp.norm(a, 1) - lambda2 * cp.sum_squares(a)  (tf)
\* regularization = - 0.1 * cp.norm(a, 1) - 0.1 * cp.sum_squares(a)      (torch)
Regularization(fw, ns) ==
  LET w1 == IF fw = "tf" THEN Node("neg", <<ns["lambda1"]>>) ELSE Num(-1, 10)
      w2 == IF fw = "tf" THEN ns["lambda2"] ELSE Num(1, 10)
  IN Node("sub", <<Node("mul", <<w1, Node("norm1", <<ns["a"]>>)>>),
                   Node("mul", <<w2, Node("sum_squares", <<ns["a"]>>)>>)>>)

\* log_likelihood = ...; regularization = ...;
\* prob = cp.Problem(cp.Maximize(log_likelihood + regularization))
StmtObjective(fw, st, k) ==
  LET ll == LogLikelihood(fw, k.ns)
      reg == Regularization(fw, k.ns)
  IN Log([k EXCEPT !.ns = BindAll(@, <<
            <<"log_likelihood", ll>>, <<"regularization", reg>>,
            <<"prob", [sense |-> "Maximize", objective |-> Node("add", <<ll, reg>>)]>> >>)],
         "cp.Problem")

\* the parameters the layer is declared with
LayerParameters(fw, ns) ==
  IF fw = "tf" THEN <<ns["X"], ns["lambda1"], ns["lambda2"]>> ELSE <<ns["X"]>>

\* fit_logreg = CvxpyLayer(prob, [X, lambda1, lambda2], [a, b])           (tf)
\* fit_logreg = CvxpyLayer(prob, [X], [a, b])                          (torch)
StmtLayer(fw, st, k) ==
  Log([k EXCEPT !.ns = Bind(@, "fit_logreg",
         [cls |-> "CvxpyLayer", problem |-> k.ns["prob"],
          parameters |-> LayerParameters(fw, k.ns),
          variables |-> <<k.ns["a"], k.ns["b"]>>])],
      "CvxpyLayer")

-----------------------------------------------------------------------------
(* Automatic differentiation: which tensors a value is differentiable in *)

\* the tensors a gradient can flow to through t: tf tracks the tensors a
\* recording tape watches, torch those with requires_grad
Tracked(fw, ns, t) ==
  t.leaves \cup
  (IF fw = "torch"
   THEN (IF t.requires_grad THEN {t.id} ELSE {})
   ELSE (IF Defined(ns, "tape") /\ ns["tape"].recording /\ t.id \in ns["tape"].watched
         THEN {t.id} ELSE {}))

\* the result of an operation on the tensors ts
Derived(fw, ns, id, shape, val, ts) ==
  [Array(fw, id, "float", shape, val) EXCEPT
     !.leaves = UNION {Tracked(fw, ns, ts[i]) : i \in DOMAIN ts}]

\* the layer applied to args: the parameters are bound to the arguments by
\* position and each variable's solution of that problem is returned
LayerCall(fw, ns, layer, args, ids) ==
  LET pnames == [i \in DOMAIN layer.parameters |-> layer.parameters[i].name]
      instance ==
        [sense |-> layer.problem.sense, objective |-> layer.problem.objective,
         binding |-> [x \in Range(pnames) |->
                        args[CHOOSE i \in DOMAIN pnames : pnames[i] = x].val]]
  IN [i \in DOMAIN layer.variables |->
        Derived(fw, ns, ids[i], layer.variables[i].shape,
                [sol |-> layer.variables[i].name, of |-> instance], args)]

\* X @ w + b on tensors
Affine(fw, ns, id, X, w, b) ==
  Derived(fw, ns, id, <<X.shape[1], 1>>,
          [op |-> "affine", X |-> X.val, w |-> w.val, b |-> b.val], <<X, w, b>>)

\* tf.keras.losses.BinaryCrossentropy(): from_logits defaults to False
BinaryCrossentropy ==
  [cls |-> "BinaryCrossentropy", from_logits |-> FALSE, reduction |-> "mean"]

\* torch.nn.BCEWithLogitsLoss(): the input is a logit
BCEWithLogitsLoss ==
  [cls |-> "BCEWithLogitsLoss", from_logits |-> TRUE, reduction |-> "mean"]

\* loss(first, second): keras takes (y_true, y_pred), torch (input, target)
ApplyLoss(fw, ns, id, loss, first, second) ==
  LET labels == IF loss.cls = "BinaryCrossentropy" THEN first ELSE second
      scores == IF loss.cls = "BinaryCrossentropy" THEN second ELSE first
  IN Derived(fw, ns, id, <<>>,
             [op |-> "bce", from_logits |-> loss.from_logits,
              reduction |-> loss.reduction,
              labels |-> labels.val, scores |-> scores.val], <<first, second>>)

\* c * t
Scale(fw, ns, id, c, t) ==
  Derived(fw, ns, id, t.shape, [op |-> "scale", c |-> c, of |-> t.val], <<t>>)

\* the gradient of the loss terms in passes with respect to source: one
\* entry per entry of source
GradientOf(lib, id, passes, source) ==
  Array(lib, id, "float", source.shape,
        [i \in 1..source.shape[1] |-> [j \in 1..source.shape[2] |->
           [d |-> passes, wrt |-> source.id, row |-> i, col |-> j]]])

-----------------------------------------------------------------------------
(* The gradient cell *)

\* the names the layer's outputs are assigned to
SlopeName(fw) == IF fw = "tf" THEN "slope" ELSE "a_tch"
InterceptName(fw) == IF fw = "tf" THEN "intercept" ELSE "b_tch"

\* the name of the differentiated loss value
LossName(fw) == IF fw = "tf" THEN "test_loss" ELSE "loss"

\* from sklearn.linear_model import LogisticRegression;
\* loss = tf.keras.losses.BinaryCrossentropy()                            (tf)
StmtMkLoss(fw, st, k) ==
  [k EXCEPT !.ns = BindAll(@, <<
     <<"LogisticRegression", Module("sklearn.linear_model")>>,
     <<"loss", BinaryCrossentropy>> >>)]

\* the tensors the tape is told to watch
TapeWatched == {"Xtrain"}

\* a tape made once and kept: a later execution finds the tape that has
\* stopped recording
StmtTapeEnterKept(fw, st, k) ==
  IF Defined(k.ns, "tape") THEN k
  ELSE [k EXCEPT !.ns = Bind(@, "tape", [watched |-> TapeWatched, recording |-> TRUE])]

\* with tf.GradientTape() as tape: tape.watch(Xtrain)                     (tf)
StmtTapeEnter(fw, st, k) ==
  [k EXCEPT !.ns = Bind(@, "tape", [watched |-> TapeWatched, recording |-> TRUE])]

\* the layer is called on the test features
LayerArgsTest(fw, ns) ==
  IF fw = "tf" THEN <<ns["Xtest"], ns["lambda1_tf"], ns["lambda2_tf"]>>
  ELSE <<ns["Xtest"]>>

\* the arguments of the layer call
LayerArgs(fw, ns) ==
  IF fw = "tf" THEN <<ns["Xtrain"], ns["lambda1_tf"], ns["lambda2_tf"]>>
  ELSE <<ns["Xtrain"]>>

\* slope, intercept = fit_logreg(Xtrain, lambda1_tf, lambda2_tf)          (tf)
\* (import LogisticRegression;) a_tch, b_tch = fit_logreg(Xtrain)      (torch)
StmtCall(fw, st, k) ==
  LET out == LayerCall(fw, k.ns, k.ns["fit_logreg"], LayerArgs(fw, k.ns),
                       <<SlopeName(fw), InterceptName(fw)>>)
      imp == IF fw = "torch"
             THEN <<(<<"LogisticRegression", Module("sklearn.linear_model")>>)>>
             ELSE <<>>
  IN Log([k EXCEPT !.ns = BindAll(@, imp \o <<
            <<SlopeName(fw), out[1]>>, <<InterceptName(fw), out[2]>> >>)],
         "fit_logreg")

\* the factor the loss is multiplied by
ScaleFactor(fw) == IF fw = "tf" THEN 30 ELSE 300

\* the loss object the test loss is computed with
LossObject(fw, ns) == IF fw = "tf" THEN ns["loss"] ELSE BCEWithLogitsLoss

\* test_loss = 30 * loss(ytest, Xtest @ slope + intercept)                (tf)
\* loss = 300 * torch.nn.BCEWithLogitsLoss()(
\*            (Xtest @ a_tch + b_tch).squeeze(), ytest*1.0)             (torch)
StmtTestLoss(fw, st, k) ==
  LET ns0 == k.ns
      pred == Affine(fw, ns0, "pred", ns0["Xtest"], ns0[SlopeName(fw)],
                     ns0[InterceptName(fw)])
      raw == IF fw = "tf"
             THEN ApplyLoss(fw, ns0, "bce", LossObject(fw, ns0), ns0["ytest"], pred)
             ELSE ApplyLoss(fw, ns0, "bce", LossObject(fw, ns0), pred, ns0["ytest"])
  IN [k EXCEPT !.ns = Bind(@, LossName(fw),
                           Scale(fw, ns0, LossName(fw), ScaleFactor(fw), raw))]

\* tape.gradient(target, source): None unless source was recorded on the
\* way to target
TapeGradient(target, source) ==
  IF source.id \in target.leaves
  THEN GradientOf("tf", "Xtrain_grad", <<target.val>>, source)
  ELSE NoneValue

\* the tensor the tf notebook differentiates with respect to
GradientSource(ns) == ns["Xtrain"]

\* (the tape stops recording;)
\* Xtrain_grad = tape.gradient(test_loss, Xtrain)                         (tf)
StmtGradient(fw, st, k) ==
  Log([k EXCEPT !.ns = BindAll(@, <<
         <<"tape", [k.ns["tape"] EXCEPT !.recording = FALSE]>>,
         <<"Xtrain_grad", TapeGradient(k.ns["test_loss"], GradientSource(k.ns))>> >>)],
      "tape.gradient")

\* loss.backward(): the loss term is accumulated into .grad of every
\* tracked tensor the loss was computed from                          (torch)
StmtBackward(fw, st, k) ==
  Log([k EXCEPT !.ns = [x \in DOMAIN @ |->
         IF x \in k.ns["loss"].leaves
         THEN [@[x] EXCEPT !.grad = Append(@, k.ns["loss"].val)]
         ELSE @[x]]],
      "loss.backward")

\* Xtrain_grad = Xtrain.grad                                          (torch)
StmtReadGrad(fw, st, k) ==
  [k EXCEPT !.ns = Bind(@, "Xtrain_grad",
     IF k.ns["Xtrain"].grad = <<>> THEN NoneValue
     ELSE GradientOf("torch", "Xtrain.grad", k.ns["Xtrain"].grad, k.ns["Xtrain"]))]

-----------------------------------------------------------------------------
(* The plot cell *)

\* the result of sklearn's fit on (X, y)
Fitted(id, shape, what, X, y) ==
  Array("numpy", id, "float", shape, [sol |-> what, of |-> [X |-> X.val, y |-> y.val]])

\* lr = LogisticRegression(solver='lbfgs'); lr.fit(Xtest.numpy(), ytest.numpy())
StmtFitTest(fw, st, k) ==
  Log([k EXCEPT !.ns = Bind(@, "lr",
         [cls |-> "LogisticRegression", solver |-> "lbfgs",
          coef_ |-> Fitted("lr.coef_", <<1, n>>, "coef_", k.ns["Xtest"], k.ns["ytest"]),
          intercept_ |-> Fitted("lr.intercept_", <<1>>, "intercept_",
                                k.ns["Xtest"], k.ns["ytest"])])],
      "lr.fit")

\* arr.astype(np.bool)
astype_bool(arr) ==
  [arr EXCEPT !.dtype = "bool", !.val = [i \in DOMAIN arr.val |-> arr.val[i] # 0]]

\* the labels are used as an index without the conversion to bool
TrainMaskInt(ns) == numpy(ns["ytrain"])

\* ytrain_np = ytrain.numpy().astype(np.bool)
TrainMask(ns) == astype_bool(numpy(ns["ytrain"]))

\* beta_train = slope.numpy().flatten(); beta_test = lr.coef_.flatten();
\* b_train = intercept[0, 0].numpy(); b_test = lr.intercept_[0];
\* hyperplane = lambda x, beta, b: - (b + beta[0] * x) / beta[1];
\* Xtrain_np, Xtrain_grad_np, ytrain_np
StmtExtract(fw, st, k) ==
  [k EXCEPT !.ns = BindAll(@, <<
     <<"beta_train", [numpy(k.ns[SlopeName(fw)]) EXCEPT !.shape = <<n>>]>>,
     <<"beta_test", [k.ns["lr"].coef_ EXCEPT !.shape = <<n>>]>>,
     <<"b_train", [numpy(k.ns[InterceptName(fw)]) EXCEPT !.shape = <<>>]>>,
     <<"b_test", [k.ns["lr"].intercept_ EXCEPT !.shape = <<>>]>>,
     <<"hyperplane", [lambda |-> "- (b + beta[0] * x) / beta[1]"]>>,
     <<"Xtrain_np", numpy(k.ns["Xtrain"])>>,
     <<"Xtrain_grad_np", numpy(k.ns["Xtrain_grad"])>>,
     <<"ytrain_np", TrainMask(k.ns)>> >>)]

\* one more artist on the current figure
Draw(k, fn, artist) == Log([k EXCEPT !.figure = Append(@, artist)], fn)

\* plt.figure()
StmtFigure(fw, st, k) == Log([k EXCEPT !.figure = <<>>], "plt.figure")

\* ~idx: logical not of a boolean array, bitwise not of an integer array
Invert(idx) ==
  [idx EXCEPT !.val = [i \in DOMAIN idx.val |->
     IF idx.dtype = "bool" THEN ~idx.val[i] ELSE -(idx.val[i] + 1)]]

\* arr[idx]: a boolean index selects the rows where it holds, an integer
\* index the rows it names (negative ones counted from the end)
RowsAt(arr, idx) ==
  IF idx.dtype = "bool" THEN SelectAt(arr.val, idx.val, 1)
  ELSE [i \in DOMAIN idx.val |->
          arr.val[IF idx.val[i] >= 0 THEN idx.val[i] + 1
                  ELSE Len(arr.val) + idx.val[i] + 1]]

Column(rows, j) == [i \in DOMAIN rows |-> rows[i][j]]

Scatter(fw, rows, marker) ==
  [kind |-> "scatter", xs |-> Column(rows, 1), ys |-> Column(rows, 2),
   s |-> 25, marker |-> IF fw = "tf" THEN "o" ELSE marker]

\* plt.scatter(Xtrain_np[ytrain_np, 0], Xtrain_np[ytrain_np, 1], s=25)
StmtScatterTrue(fw, st, k) ==
  Draw(k, "plt.scatter",
       Scatter(fw, RowsAt(k.ns["Xtrain_np"], k.ns["ytrain_np"]), "+"))

\* plt.scatter(Xtrain_np[~ytrain_np, 0], Xtrain_np[~ytrain_np, 1], s=25)
StmtScatterFalse(fw, st, k) ==
  Draw(k, "plt.scatter",
       Scatter(fw, RowsAt(k.ns["Xtrain_np"], Invert(k.ns["ytrain_np"])), "*"))

\* for i in range(m): the next value of the range, if it has one; it counts
\* the values already taken
StmtFor(fw, st, k, it) ==
  IF it < k.ns["m"] THEN [k EXCEPT !.ns = Bind(@, "i", it)] ELSE k

\* the components of the displacement are swapped
StmtArrowSwapped(fw, st, k) ==
  LET i == k.ns["i"] + 1 IN
  Draw(k, "plt.arrow",
       [kind |-> "arrow",
        x |-> k.ns["Xtrain_np"].val[i][1], y |-> k.ns["Xtrain_np"].val[i][2],
        dx |-> k.ns["Xtrain_grad_np"].val[i][2],
        dy |-> k.ns["Xtrain_grad_np"].val[i][1],
        color |-> IF fw = "tf" THEN "black" ELSE "default"])

\* plt.arrow(Xtrain_np[i, 0], Xtrain_np[i, 1],
\*           Xtrain_grad_np[i, 0], Xtrain_grad_np[i, 1])
StmtArrow(fw, st, k) ==
  LET i == k.ns["i"] + 1 IN
  Draw(k, "plt.arrow",
       [kind |-> "arrow",
        x |-> k.ns["Xtrain_np"].val[i][1], y |-> k.ns["Xtrain_np"].val[i][2],
        dx |-> k.ns["Xtrain_grad_np"].val[i][1],
        dy |-> k.ns["Xtrain_grad_np"].val[i][2],
        color |-> IF fw = "tf" THEN "black" ELSE "default"])

\* plt.xlim(-8, 8); plt.ylim(-8, 8)
StmtLimits(fw, st, k) ==
  Draw(Draw(k, "plt.xlim", [kind |-> "xlim", lo |-> -8, hi |-> 8]),
       "plt.ylim", [kind |-> "ylim", lo |-> -8, hi |-> 8])

\* plt.plot(np.linspace(-8, 8, 100),
\*          [hyperplane(x, beta, b) for x in np.linspace(-8, 8, 100)], ...)
Line(ns, beta, b, style, color, label) ==
  [kind |-> "line", xs |-> [lo |-> -8, hi |-> 8, num |-> 100],
   ys |-> [f |-> ns["hyperplane"], beta |-> beta.val, b |-> b.val],
   style |-> style, color |-> color, label |-> label]

\* the line labelled train is drawn from the test fit
StmtPlotTrainFromTest(fw, st, k) ==
  Draw(k, "plt.plot",
       Line(k.ns, k.ns["beta_test"], k.ns["b_test"],
            IF fw = "tf" THEN "-" ELSE "--", "red", "train"))

\* plt.plot(..., hyperplane(x, beta_train, b_train) ..., color='red', label='train')
StmtPlotTrain(fw, st, k) ==
  Draw(k, "plt.plot",
       Line(k.ns, k.ns["beta_train"], k.ns["b_train"],
            IF fw = "tf" THEN "-" ELSE "--", "red", "train"))

\* plt.plot(..., hyperplane(x, beta_test, b_test) ..., color='blue', label='test')
StmtPlotTest(fw, st, k) ==
  Draw(k, "plt.plot",
       Line(k.ns, k.ns["beta_test"], k.ns["b_test"], "-", "blue", "test"))

\* plt.legend()
StmtLegend(fw, st, k) == Draw(k, "plt.legend", [kind |-> "legend"])

\* plt.savefig("data_poisoning.pdf")                                  (torch)
StmtSavefig(fw, st, k) ==
  Log([k EXCEPT !.files = @ \cup {"data_poisoning.pdf"}], "plt.savefig")

\* plt.show()
StmtShow(fw, st, k) == Log(k, "plt.show")

-----------------------------------------------------------------------------
(* The cells: each a sequence of statements *)

Cells == <<"imports", "setup", "gradient", "plot">>

ImportsProgram(fw) == <<"imports">>

SetupProgram(fw) ==
  IF fw = "tf"
  THEN <<"seed", "make_blobs", "train_test_split", "to_tensor", "shape",
         "lambdas", "declare", "objective", "layer">>
  ELSE <<"seed", "make_blobs", "train_test_split", "to_tensor", "requires_grad",
         "shape", "declare", "objective", "layer">>

\* the gradient is requested before the layer is called
GradientProgramGradFirst(fw) ==
  IF fw = "tf"
  THEN <<"mk_loss", "tape_enter", "gradient", "call", "test_loss">>
  ELSE <<"backward", "read_grad", "call", "test_loss">>

\* the layer is called a second time
GradientProgramCallTwice(fw) ==
  IF fw = "tf"
  THEN <<"mk_loss", "tape_enter", "call", "call", "test_loss", "gradient">>
  ELSE <<"call", "call", "test_loss", "backward", "read_grad">>

GradientProgram(fw) ==
  IF fw = "tf"
  THEN <<"mk_loss", "tape_enter", "call", "test_loss", "gradient">>
  ELSE <<"call", "test_loss", "backward", "read_grad">>

PlotProgram(fw) ==
  IF fw = "tf"
  THEN <<"fit_test", "extract", "figure", "scatter_true", "scatter_false",
         "for", "arrow", "limits", "plot_train", "plot_test", "legend", "show">>
  ELSE <<"fit_test", "extract", "figure", "scatter_true", "scatter_false",
         "for", "arrow", "limits", "plot_train", "plot_test", "legend",
         "savefig", "show">>

Program(fw, cell) ==
  CASE cell = "imports" -> ImportsProgram(fw)
    [] cell = "setup" -> SetupProgram(fw)
    [] cell = "gradient" -> GradientProgram(fw)
    [] cell = "plot" -> PlotProgram(fw)

\* the names a statement reads: an unbound one raises NameError
Reads(fw, label) ==
  LET lam == IF fw = "tf" THEN {"lambda1", "lambda2"} ELSE {} IN
  CASE label = "imports" -> {}
    [] label = "seed" -> {"np", fw}
    [] label = "make_blobs" -> {"make_blobs", "N", "n", "np"}
    [] label = "train_test_split" -> {"train_test_split", "X", "y"}
    [] label = "to_tensor" -> {fw, "Xtrain", "Xtest", "ytrain", "ytest"}
    [] label = "requires_grad" -> {"Xtrain"}
    [] label = "shape" -> {"Xtrain"}
    [] label = "lambdas" -> {"tf"}
    [] label = "declare" -> {"cp", "n", "m", "ytrain", "np"}
    [] label = "objective" -> {"cp", "np", "m", "Y", "X", "a", "b"} \cup lam
    [] label = "layer" -> {"CvxpyLayer", "prob", "X", "a", "b"} \cup lam
    [] label = "mk_loss" -> {"tf"}
    [] label = "tape_enter" -> {"tf", "Xtrain"}
    [] label = "call" ->
         {"fit_logreg", "Xtrain"} \cup
         (IF fw = "tf" THEN {"lambda1_tf", "lambda2_tf"} ELSE {})
    [] label = "test_loss" ->
         {"Xtest", "ytest", SlopeName(fw), InterceptName(fw)} \cup
         (IF fw = "tf" THEN {"loss"} ELSE {"torch"})
    [] label = "gradient" -> {"tape", "test_loss", "Xtrain"}
    [] label = "backward" -> {"loss"}
    [] label = "read_grad" -> {"Xtrain"}
    [] label = "fit_test" -> {"LogisticRegression", "Xtest", "ytest"}
    [] label = "extract" ->
         {SlopeName(fw), InterceptName(fw), "lr", "Xtrain", "Xtrain_grad",
          "ytrain", "np"}
    [] label = "figure" -> {"plt"}
    [] label = "scatter_true" -> {"plt", "Xtrain_np", "ytrain_np"}
    [] label = "scatter_false" -> {"plt", "Xtrain_np", "ytrain_np"}
    [] label = "for" -> {"m"}
    [] label = "arrow" -> {"plt", "Xtrain_np", "Xtrain_grad_np", "i"}
    [] label = "limits" -> {"plt"}
    [] label = "plot_train" -> {"plt", "np", "hyperplane", "beta_train", "b_train"}
    [] label = "plot_test" -> {"plt", "np", "hyperplane", "beta_test", "b_test"}
    [] label = "legend" -> {"plt"}
    [] label = "savefig" -> {"plt"}
    [] label = "show" -> {"plt"}

\* the effect of the statement label on the kernel; it is the count of the
\* values the running for loop has taken
Apply(fw, st, k, label, it) ==
  CASE label = "imports" -> StmtImports(fw, st, k)
    [] label = "seed" -> StmtSeed(fw, st, k)
    [] label = "make_blobs" -> StmtMakeBlobs(fw, st, k)
    [] label = "train_test_split" -> StmtTrainTestSplit(fw, st, k)
    [] label = "to_tensor" -> StmtToTensor(fw, st, k)
    [] label = "requires_grad" -> StmtRequiresGrad(fw, st, k)
    [] label = "shape" -> StmtShape(fw, st, k)
    [] label = "lambdas" -> StmtLambdas(fw, st, k)
    [] label = "declare" -> StmtDeclare(fw, st, k)
    [] label = "objective" -> StmtObjective(fw, st, k)
    [] label = "layer" -> StmtLayer(fw, st, k)
    [] label = "mk_loss" -> StmtMkLoss(fw, st, k)
    [] label = "tape_enter" -> StmtTapeEnter(fw, st, k)
    [] label = "call" -> StmtCall(fw, st, k)
    [] label = "test_loss" -> StmtTestLoss(fw, st, k)
    [] label = "gradient" -> StmtGradient(fw, st, k)
    [] label = "backward" -> StmtBackward(fw, st, k)
    [] label = "read_grad" -> StmtReadGrad(fw, st, k)
    [] label = "fit_test" -> StmtFitTest(fw, st, k)
    [] label = "extract" -> StmtExtract(fw, st, k)
    [] label = "figure" -> StmtFigure(fw, st, k)
    [] label = "scatter_true" -> StmtScatterTrue(fw, st, k)
    [] label = "scatter_false" -> StmtScatterFalse(fw, st, k)
    [] label = "for" -> StmtFor(fw, st, k, it)
    [] label = "arrow" -> StmtArrow(fw, st, k)
    [] label = "limits" -> StmtLimits(fw, st, k)
    [] label = "plot_train" -> StmtPlotTrain(fw, st, k)
    [] label = "plot_test" -> StmtPlotTest(fw, st, k)
    [] label = "legend" -> StmtLegend(fw, st, k)
    [] label = "savefig" -> StmtSavefig(fw, st, k)
    [] label = "show" -> StmtShow(fw, st, k)

Idle == [cell |-> "idle", at |-> 0, it |-> 0]

\* where control goes after the statement at p: the for statement enters
\* its body while the range has values and leaves the loop when it has
\* none, the body returns to the for statement, the last statement ends
\* the cell
Goto(fw, k, p) ==
  LET prog == Program(fw, p.cell)
      label == prog[p.at]
      to == CASE label = "for" /\ p.it < k.ns["m"] -> [p EXCEPT !.at = @ + 1, !.it = @ + 1]
              [] label = "for" /\ p.it >= k.ns["m"] -> [p EXCEPT !.at = @ + 2, !.it = 0]
              [] label = "arrow" -> [p EXCEPT !.at = @ - 1]
              [] OTHER -> [p EXCEPT !.at = @ + 1]
  IN IF to.at > Len(prog) THEN Idle ELSE to

\* the kernel begins the cell c
StartCell(k, c) ==
  [k EXCEPT !.pc = [cell |-> c, at |-> 1, it |-> 0], !.error = ""]

\* one statement of the running cell: NameError ends the cell, otherwise
\* the statement takes effect and control moves on
Exec(fw, st, k) ==
  LET label == Program(fw, k.pc.cell)[k.pc.at] IN
  IF ~(Reads(fw, label) \subseteq DOMAIN k.ns)
  THEN [k EXCEPT !.pc = Idle, !.error = "NameError"]
  ELSE [Apply(fw, st, k, label, k.pc.it) EXCEPT !.pc = Goto(fw, k, k.pc)]

\* the running cell executed to its end
RECURSIVE RunToIdle(_, _, _)
RunToIdle(fw, st, k) ==
  IF k.pc.cell = "idle" THEN k ELSE RunToIdle(fw, st, Exec(fw, st, k))

\* the cells executed one after the other
RECURSIVE RunCells(_, _, _, _)
RunCells(fw, st, k, cells) ==
  IF cells = <<>> THEN k
  ELSE RunCells(fw, st, RunToIdle(fw, st, StartCell(k, Head(cells))), Tail(cells))

-----------------------------------------------------------------------------
VARIABLES
  framework,  \* which notebook the kernel runs
  stream,     \* what the random stream seeded with 0 yields
  pc,         \* the running cell, the statement in it, the loop count
  ns,         \* the kernel's namespace: name -> value
  figure,     \* the artists of the current matplotlib figure
  files,      \* the files written
  calls,      \* the library calls made, in order
  error,      \* the exception that ended the last cell, "" if none
  history     \* the cells executed, in order

vars == <<framework, stream, pc, ns, figure, files, calls, error, history>>

Kernel ==
  [pc |-> pc, ns |-> ns, figure |-> figure, files |-> files, calls |-> calls,
   error |-> error]

FreshKernel ==
  [pc |-> Idle, ns |-> <<>>, figure |-> <<>>, files |-> {}, calls |-> <<>>,
   error |-> ""]

\* the kernel after the notebook fw has been run in document order on the
\* stream st
NotebookRun(fw, st) == RunCells(fw, st, FreshKernel, Cells)

Init ==
  /\ framework \in Frameworks
  /\ stream \in Streams
  /\ pc = FreshKernel.pc
  /\ ns = FreshKernel.ns
  /\ figure = FreshKernel.figure
  /\ files = FreshKernel.files
  /\ calls = FreshKernel.calls
  /\ error = FreshKernel.error
  /\ history = <<>>

\* the user executes the next cell of the document
RunCell ==
  /\ pc.cell = "idle"
  /\ Len(history) < Len(Cells)
  /\ pc' = StartCell(Kernel, Cells[Len(history) + 1]).pc
  /\ error' = StartCell(Kernel, Cells[Len(history) + 1]).error
  /\ history' = Append(history, Cells[Len(history) + 1])
  /\ UNCHANGED <<framework, stream, ns, figure, files, calls>>

\* the running cell is at the statement label
At(label) == pc.cell # "idle" /\ Program(framework, pc.cell)[pc.at] = label

\* the kernel executes the statement the running cell is at
Run ==
  /\ LET k == Exec(framework, stream, Kernel) IN
       /\ pc' = k.pc
       /\ ns' = k.ns
       /\ figure' = k.figure
       /\ files' = k.files
       /\ calls' = k.calls
       /\ error' = k.error
  /\ UNCHANGED <<framework, stream, history>>

Imports == At("imports") /\ Run
Seed == At("seed") /\ Run
MakeBlobs == At("make_blobs") /\ Run
TrainTestSplit == At("train_test_split") /\ Run
ToTensor == At("to_tensor") /\ Run
RequiresGrad == At("requires_grad") /\ Run
Shape == At("shape") /\ Run
Lambdas == At("lambdas") /\ Run
Declare == At("declare") /\ Run
Objective == At("objective") /\ Run
Layer == At("layer") /\ Run
MkLoss == At("mk_loss") /\ Run
TapeEnter == At("tape_enter") /\ Run
Call == At("call") /\ Run
TestLoss == At("test_loss") /\ Run
Gradient == At("gradient") /\ Run
Backward == At("backward") /\ Run
ReadGrad == At("read_grad") /\ Run
FitTest == At("fit_test") /\ Run
Extract == At("extract") /\ Run
Figure == At("figure") /\ Run
ScatterTrue == At("scatter_true") /\ Run
ScatterFalse == At("scatter_false") /\ Run
For == At("for") /\ Run
Arrow == At("arrow") /\ Run
Limits == At("limits") /\ Run
PlotTrain == At("plot_train") /\ Run
PlotTest == At("plot_test") /\ Run
Legend == At("legend") /\ Run
Savefig == At("savefig") /\ Run
Show == At("show") /\ Run

Next ==
  \/ RunCell
  \/ Imports \/ Seed \/ MakeBlobs \/ TrainTestSplit \/ ToTensor \/ RequiresGrad
  \/ Shape \/ Lambdas \/ Declare \/ Objective \/ Layer
  \/ MkLoss \/ TapeEnter \/ Call \/ TestLoss \/ Gradient \/ Backward \/ ReadGrad
  \/ FitTest \/ Extract \/ Figure \/ ScatterTrue \/ ScatterFalse \/ For \/ Arrow
  \/ Limits \/ PlotTrain \/ PlotTest \/ Legend \/ Savefig \/ Show

Spec == Init /\ [][Next]_vars

\* every cell has been executed and the kernel is idle again
Done == pc.cell = "idle" /\ history = Cells

-----------------------------------------------------------------------------
(* The stages of a run *)

\* the stage a library call belongs to: 1 data generation, 2 problem
\* declaration, 3 layer construction, 4 optimization-layer call, 5 gradient
\* computation, 6 plot
StageRank(fn) ==
  CASE fn \in {"make_blobs", "train_test_split"} -> 1
    [] fn \in {"cp.Variable", "cp.Problem"} -> 2
    [] fn = "CvxpyLayer" -> 3
    [] fn = "fit_logreg" -> 4
    [] fn \in {"tape.gradient", "loss.backward"} -> 5
    [] OTHER -> 6

Stages == {1, 2, 3, 4, 5, 6}

Count(seq, x) == Cardinality({i \in DOMAIN seq : seq[i] = x})

\* C1: in a run of the cells in document order the library calls go
\* through the stages data generation, problem declaration, layer
\* construction, layer call, gradient computation, plot in this order: a call
\* of a stage is never followed by a call of an earlier stage, every call is
\* preceded by calls of all earlier stages, and when the last cell has
\* ended every stage has taken place and no cell has ended in an error.
C1_StagesInOrder ==
  /\ \A i, j \in DOMAIN calls : i < j => StageRank(calls[i]) <= StageRank(calls[j])
  /\ \A i \in DOMAIN calls : \A r \in Stages :
       r < StageRank(calls[i]) => \E j \in 1..(i - 1) : StageRank(calls[j]) = r
  /\ error = ""
  /\ Done => {StageRank(calls[i]) : i \in DOMAIN calls} = Stages

C1_Witness == Done /\ calls # <<>> /\ calls[Len(calls)] = "plt.show"

\* the call that requests the gradient
GradientCall(fw) == IF fw = "tf" THEN "tape.gradient" ELSE "loss.backward"

\* C2: in a run of the cells in document order the layer fit_logreg is
\* constructed at most once, called at most once and a gradient is requested
\* at most once, and when the last cell has ended each has happened exactly
\* once (and the other framework's gradient call never).
C2_OnePass ==
  /\ Count(calls, "CvxpyLayer") <= 1
  /\ Count(calls, "fit_logreg") <= 1
  /\ Count(calls, "tape.gradient") + Count(calls, "loss.backward") <= 1
  /\ Done => /\ Count(calls, "CvxpyLayer") = 1
             /\ Count(calls, "fit_logreg") = 1
             /\ Count(calls, GradientCall(framework)) = 1

C2_Witness ==
  /\ Done
  /\ Count(calls, "fit_logreg") = 1
  /\ Count(calls, GradientCall(framework)) = 1
  /\ Defined(ns, "Xtrain_grad")

-----------------------------------------------------------------------------
(* The problem the layer solves *)

\* the problem instance with the parameters replaced by the values bound to
\* them, -(c) folded into the constant and log_sum_exp over [0, z] written
\* as logistic(z), which it equals: log(e^0 + e^z) = log(1 + e^z)
RECURSIVE Canon(_, _)
Canon(node, binding) ==
  LET kids == [i \in DOMAIN node.kids |-> Canon(node.kids[i], binding)] IN
  CASE node.op = "Parameter" /\ node.name \in DOMAIN binding /\ node.shape = <<1, 1>> ->
         Num(binding[node.name][1], binding[node.name][2])
    [] node.op = "Parameter" /\ node.name \in DOMAIN binding /\ node.shape # <<1, 1>> ->
         Constant(node.name, node.shape, binding[node.name])
    [] node.op = "neg" /\ kids[1].op = "Num" ->
         Num(-kids[1].num[1], kids[1].num[2])
    [] /\ node.op = "T"
       /\ kids[1].op = "log_sum_exp_axis0"
       /\ kids[1].kids[1].op = "T"
       /\ kids[1].kids[1].kids[1].op = "hstack"
       /\ kids[1].kids[1].kids[1].kids[1].name = "zeros" ->
         Node("logistic", <<kids[1].kids[1].kids[1].kids[2]>>)
    [] OTHER -> [node EXCEPT !.kids = kids]

\* the variables an expression mentions
RECURSIVE VarsOf(_)
VarsOf(node) ==
  (IF node.op = "Variable" THEN {node.name} ELSE {}) \cup
  UNION {VarsOf(node.kids[i]) : i \in DOMAIN node.kids}

\* maximize (1/m) sum(Y * z - logistic(z)) - l1 ||a||_1 - l2 ||a||_2^2 with
\* z = X a + b, on the features Xd and the labels Yd
DocumentedLogLikelihood(Xd, Yd) ==
  LET m == Len(Xd)
      z == Scores(Constant("X", <<m, n>>, Xd), Variable("a", <<n, 1>>),
                  Variable("b", <<1, 1>>))
  IN Node("mul", <<Num(1, m),
       Node("sum", <<Node("sub", <<
         Node("multiply", <<Constant("Y", <<m, 1>>, Yd), z>>),
         Node("logistic", <<z>>)>>)>>)>>)

ElasticNet(l1, l2) ==
  Node("sub", <<
    Node("mul", <<Num(-l1[1], l1[2]), Node("norm1", <<Variable("a", <<n, 1>>)>>)>>),
    Node("mul", <<Num(l2[1], l2[2]), Node("sum_squares", <<Variable("a", <<n, 1>>)>>)>>)>>)

DocumentedProblem(Xd, Yd, l1, l2) ==
  [sense |-> "Maximize",
   objective |-> Node("add", <<DocumentedLogLikelihood(Xd, Yd), ElasticNet(l1, l2)>>)]

CanonProblem(instance) ==
  [sense |-> instance.sense,
   objective |-> Canon(instance.objective, instance.binding)]

\* the training and the test set the seeded stream yields
StreamSplit == LET d == make_blobs(stream) IN train_test_split(d.X, d.y, stream)

Slope == ns[SlopeName(framework)]
Intercept == ns[InterceptName(framework)]
Fit == Defined(ns, SlopeName(framework)) /\ Defined(ns, InterceptName(framework))
LossValue == ns[LossName(framework)]
\* in the tf notebook loss names the loss object, test_loss the value
HasLoss == Defined(ns, LossName(framework)) /\ Defined(ns, SlopeName(framework))

\* C4 (as claimed): the differentiated quantity is c * mean logistic loss,
\* c > 0, of the logits Xtest @ slope + intercept against ytest: the loss
\* function treats its input as a logit.
C4_LogitLoss ==
  HasLoss =>
    /\ LossValue.val.op = "scale"
    /\ LossValue.val.c > 0
    /\ LossValue.val.of.op = "bce"
    /\ LossValue.val.of.reduction = "mean"
    /\ LossValue.val.of.labels = ns["ytest"].val
    /\ LossValue.val.of.scores =
         [op |-> "affine", X |-> ns["Xtest"].val, w |-> Slope.val, b |-> Intercept.val]
    /\ LossValue.val.of.from_logits

\* the names bound to tensors
TensorNames ==
  {"Xtrain", "Xtest", "ytrain", "ytest", "lambda1_tf", "lambda2_tf",
   "slope", "intercept", "a_tch", "b_tch", "test_loss"}

\* the tensors a gradient has been computed for: those with a .grad (torch)
\* and the one Xtrain_grad is the gradient of
GradientsTaken ==
  {x \in TensorNames \cap DOMAIN ns : ns[x].grad # <<>>} \cup
  (IF Defined(ns, "Xtrain_grad") /\ ns["Xtrain_grad"] # NoneValue
   THEN {ns["Xtrain_grad"].val[i][j].wrt :
           i \in 1..ns["Xtrain_grad"].shape[1], j \in 1..ns["Xtrain_grad"].shape[2]}
   ELSE {})

\* C5: Xtrain_grad is the gradient of the test loss value with respect to
\* Xtrain: it has the shape (m, n) of Xtrain, its entry (i, j) is the
\* derivative of the loss in Xtrain[i, j], and no gradient exists for any
\* other tensor (test features, labels, regularization weights).
C5_GradientOfTraining ==
  /\ GradientsTaken \subseteq {"Xtrain"}
  /\ Defined(ns, "Xtrain_grad") =>
       /\ ns["Xtrain_grad"].shape = ns["Xtrain"].shape
       /\ ns["Xtrain_grad"].shape = <<NTrain, n>>
       /\ \A i \in 1..NTrain : \A j \in 1..n :
            ns["Xtrain_grad"].val[i][j] =
              [d |-> <<LossValue.val>>, wrt |-> "Xtrain", row |-> i, col |-> j]

C5_Witness ==
  /\ Defined(ns, "Xtrain_grad")
  /\ ns["Xtrain_grad"].shape = <<NTrain, n>>
  /\ GradientsTaken = {"Xtrain"}
  /\ pc.cell = "idle"

SplitOf(st) == LET d == make_blobs(st) IN train_test_split(d.X, d.y, st)

\* the streams that yield the same training set as this run's
SameTraining ==
  {st2 \in Streams : /\ SplitOf(st2).Xtrain = StreamSplit.Xtrain
                     /\ SplitOf(st2).ytrain = StreamSplit.ytrain}

\* C6: the slope and the intercept the layer returns are the solutions for
\* a and b of the problem on the training features, the training labels and
\* the weights 0.1 alone, so runs whose streams yield the same training set
\* get the same slope and intercept whatever the test set is; and the test
\* loss is evaluated on (Xtest, ytest).
C6_TrainTestSeparation ==
  /\ Fit =>
       /\ Slope.val.sol = "a"
       /\ Intercept.val.sol = "b"
       /\ Slope.val.of = Intercept.val.of
       /\ DOMAIN Slope.val.of.binding \subseteq {"X", "lambda1", "lambda2"}
       /\ CanonProblem(Slope.val.of) =
            DocumentedProblem(StreamSplit.Xtrain, StreamSplit.ytrain,
                              <<1, 10>>, <<1, 10>>)
  /\ HasLoss =>
       /\ LossValue.val.of.labels = StreamSplit.ytest
       /\ LossValue.val.of.scores.X = StreamSplit.Xtest
  /\ Done =>
       \A st2 \in SameTraining :
         LET k2 == NotebookRun(framework, st2) IN
           /\ k2.ns[SlopeName(framework)].val = Slope.val
           /\ k2.ns[InterceptName(framework)].val = Intercept.val

\* a finished run for which another stream yields the same training set and
\* another test set
C6_Witness ==
  /\ Done
  /\ HasLoss
  /\ Slope.val.of.binding["X"] = StreamSplit.Xtrain
  /\ \E st2 \in SameTraining :
       SplitOf(st2).ytest # StreamSplit.ytest \/ SplitOf(st2).Xtest # StreamSplit.Xtest

\* the regularization term of the problem instance, parameters bound
RegularizationSolved(instance) == Canon(instance.objective.kids[2], instance.binding)

\* C7: the problem the layer call solves has the regularizer
\* 0.1 ||a||_1 + 0.1 ||a||_2^2 (subtracted from the maximized
\* log-likelihood): both weights are 0.1 at the call, in the tf notebook as
\* the values bound to lambda1 and lambda2, and the regularizer mentions the
\* slope variable a only, never the intercept b.
C7_ElasticNet ==
  Fit =>
    /\ Slope.val.of.sense = "Maximize"
    /\ Slope.val.of.objective.op = "add"
    /\ RegularizationSolved(Slope.val.of) = ElasticNet(<<1, 10>>, <<1, 10>>)
    /\ VarsOf(Slope.val.of.objective.kids[2]) = {"a"}
    /\ VarsOf(Slope.val.of.objective.kids[1]) = {"a", "b"}
    /\ framework = "tf" =>
         /\ Slope.val.of.binding["lambda1"] = <<1, 10>>
         /\ Slope.val.of.binding["lambda2"] = <<1, 10>>
         /\ ns["regularization"].kids[1].kids[1].kids[1].name = "lambda1"
         /\ ns["regularization"].kids[2].kids[1].name = "lambda2"
    /\ Slope.val.sol = "a"

C7_Witness ==
  /\ Fit
  /\ framework = "tf"
  /\ Slope.val.of.binding["lambda1"] = <<1, 10>>
  /\ pc.cell = "gradient"

-----------------------------------------------------------------------------
(* The two notebooks compared *)

Other(fw) == IF fw = "tf" THEN "torch" ELSE "tf"

\* a library call with the framework's gradient call abstracted
AbstractCall(fn) == IF fn \in {"tape.gradient", "loss.backward"} THEN "gradient" ELSE fn

Operations(k) == [i \in DOMAIN k.calls |-> AbstractCall(k.calls[i])]

Data(k) ==
  <<k.ns["Xtrain"].val, k.ns["Xtest"].val, k.ns["ytrain"].val, k.ns["ytest"].val>>

ParameterList(k) ==
  [i \in DOMAIN k.ns["fit_logreg"].parameters |-> k.ns["fit_logreg"].parameters[i].name]

\* what a finished run of the notebook fw looks like with the framework's
\* calls abstracted
View(fw, k) ==
  [operations |-> Operations(k),
   data |-> Data(k),
   parameters |-> ParameterList(k),
   objective |-> k.ns["prob"].objective,
   from_logits |-> k.ns[LossName(fw)].val.of.from_logits,
   reduction |-> k.ns[LossName(fw)].val.of.reduction,
   scale |-> k.ns[LossName(fw)].val.c,
   figure |-> k.figure,
   files |-> k.files]

Geometry(artist) ==
  CASE artist.kind = "scatter" ->
         [kind |-> "scatter", xs |-> artist.xs, ys |-> artist.ys, s |-> artist.s]
    [] artist.kind = "arrow" -> [kind |-> "arrow", x |-> artist.x, y |-> artist.y]
    [] artist.kind = "line" ->
         [kind |-> "line", xs |-> artist.xs, color |-> artist.color,
          label |-> artist.label, f |-> artist.ys.f]
    [] OTHER -> artist

Without(seq, x) == SelectSeq(seq, LAMBDA e : e # x)

\* what the two notebooks share
SharedView(fw, k) ==
  [operations |-> Without(Operations(k), "plt.savefig"),
   data |-> Data(k),
   solved |-> CanonProblem(k.ns[SlopeName(fw)].val.of),
   slope |-> k.ns[SlopeName(fw)].val.sol,
   intercept |-> k.ns[InterceptName(fw)].val.sol,
   reduction |-> k.ns[LossName(fw)].val.of.reduction,
   labels |-> k.ns[LossName(fw)].val.of.labels,
   scored |-> k.ns[LossName(fw)].val.of.scores.X,
   gradient_shape |-> k.ns["Xtrain_grad"].shape,
   figure |-> [i \in DOMAIN k.figure |-> Geometry(k.figure[i])],
   test_line |-> SelectSeq(k.figure, LAMBDA a : a.kind = "line")[2].ys]

-----------------------------------------------------------------------------
(* The plot *)

Points(artist) == [i \in DOMAIN artist.xs |-> <<artist.xs[i], artist.ys[i]>>]

Scatters == SelectSeq(figure, LAMBDA a : a.kind = "scatter")
Arrows == SelectSeq(figure, LAMBDA a : a.kind = "arrow")
Lines == SelectSeq(figure, LAMBDA a : a.kind = "line")

\* the training points of class c in the order of the training set
ClassPoints(c) ==
  SelectAt(StreamSplit.Xtrain,
           [i \in DOMAIN StreamSplit.ytrain |-> StreamSplit.ytrain[i] = c], 1)

\* C8: the first scatter draws exactly the training points labelled 1 and
\* the second exactly those labelled 0: together they draw every training
\* point once, none twice, and no test point.
C8_ScattersPartition ==
  /\ Len(Scatters) >= 1 => Points(Scatters[1]) = ClassPoints(1)
  /\ Len(Scatters) >= 2 =>
       /\ Len(Scatters) = 2
       /\ Points(Scatters[2]) = ClassPoints(0)
       /\ Range(Points(Scatters[1])) \cup Range(Points(Scatters[2])) =
            Range(ns["Xtrain"].val)
       /\ Range(Points(Scatters[1])) \cap Range(Points(Scatters[2])) = {}
       /\ Len(Points(Scatters[1])) + Len(Points(Scatters[2])) = Len(ns["Xtrain"].val)
       /\ (Range(Points(Scatters[1])) \cup Range(Points(Scatters[2]))) \cap
            Range(ns["Xtest"].val) = {}

\* both classes occur in the training set and both scatters are drawn
C8_Witness ==
  /\ Len(Scatters) = 2
  /\ Points(Scatters[1]) # <<>>
  /\ Points(Scatters[2]) # <<>>

\* the loop of the plot cell has ended
ArrowsDrawn == Count(calls, "plt.xlim") > 0

\* C9: arrow i starts at training point i and its displacement is row i of
\* Xtrain_grad, the derivative of the loss in (Xtrain[i,0], Xtrain[i,1]);
\* when the loop has ended there are exactly m arrows.
C9_ArrowsAttached ==
  /\ \A i \in DOMAIN Arrows :
       /\ i <= NTrain
       /\ Arrows[i].x = StreamSplit.Xtrain[i][1]
       /\ Arrows[i].y = StreamSplit.Xtrain[i][2]
       /\ Arrows[i].dx = ns["Xtrain_grad"].val[i][1]
       /\ Arrows[i].dy = ns["Xtrain_grad"].val[i][2]
       /\ Arrows[i].dx = [d |-> <<LossValue.val>>, wrt |-> "Xtrain", row |-> i, col |-> 1]
       /\ Arrows[i].dy = [d |-> <<LossValue.val>>, wrt |-> "Xtrain", row |-> i, col |-> 2]
  /\ ArrowsDrawn => Len(Arrows) = ns["m"] /\ Len(Arrows) = NTrain

C9_Witness == ArrowsDrawn /\ Len(Arrows) = NTrain /\ NTrain >= 2

\* C10: the line labelled train is red and is the hyperplane of the slope
\* and intercept the layer call returned for the training data; the line
\* labelled test is blue and is the hyperplane of the coefficients of the
\* logistic regression fitted on (Xtest, ytest); each is drawn once.
C10_LinesFromTheirFits ==
  /\ \A i \in DOMAIN Lines :
       /\ Lines[i].label = "train" =>
            /\ i = 1
            /\ Lines[i].color = "red"
            /\ Lines[i].ys.beta = Slope.val
            /\ Lines[i].ys.b = Intercept.val
            /\ Lines[i].ys.beta.sol = "a"
            /\ Lines[i].ys.b.sol = "b"
            /\ Lines[i].ys.beta.of.binding["X"] = StreamSplit.Xtrain
       /\ Lines[i].label = "test" =>
            /\ i = 2
            /\ Lines[i].color = "blue"
            /\ Lines[i].ys.beta =
                 [sol |-> "coef_", of |-> [X |-> StreamSplit.Xtest, y |-> StreamSplit.ytest]]
            /\ Lines[i].ys.b =
                 [sol |-> "intercept_", of |-> [X |-> StreamSplit.Xtest, y |-> StreamSplit.ytest]]
       /\ Lines[i].label \in {"train", "test"}
  /\ Done => /\ Len(Lines) = 2
             /\ Lines[1].label = "train"
             /\ Lines[2].label = "test"
             /\ Count(calls, "fit_logreg") = 1

C10_Witness ==
  /\ Done
  /\ Len(Lines) = 2
  /\ Lines[1].ys.beta = Slope.val
  /\ Lines[2].ys.beta.sol = "coef_"

-----------------------------------------------------------------------------
(* A library call that raises *)

\* the names the statement label assigns, in the order of the cell's text
Assigns(fw, label) ==
  CASE label = "imports" -> {"cp", "plt", "np", fw, "CvxpyLayer"}
    [] label = "seed" -> {"make_blobs", "train_test_split", "n", "N"}
    [] label = "make_blobs" -> {"X", "y"}
    [] label = "train_test_split" -> {"Xtrain", "Xtest", "ytrain", "ytest"}
    [] label = "to_tensor" -> {"Xtrain", "Xtest", "ytrain", "ytest"}
    [] label = "shape" -> {"m"}
    [] label = "lambdas" -> {"lambda1_tf", "lambda2_tf"}
    [] label = "declare" ->
         {"a", "b", "X", "Y"} \cup
         (IF fw = "tf" THEN {"lambda1", "lambda2"} ELSE {})
    [] label = "objective" -> {"log_likelihood", "regularization", "prob"}
    [] label = "layer" -> {"fit_logreg"}
    [] label = "mk_loss" -> {"LogisticRegression", "loss"}
    [] label = "tape_enter" -> {"tape"}
    [] label = "call" ->
         {SlopeName(fw), InterceptName(fw)} \cup
         (IF fw = "torch" THEN {"LogisticRegression"} ELSE {})
    [] label = "test_loss" -> {LossName(fw)}
    [] label = "gradient" -> {"Xtrain_grad"}
    [] label = "read_grad" -> {"Xtrain_grad"}
    [] label = "fit_test" -> {"lr"}
    [] label = "extract" ->
         {"beta_train", "beta_test", "b_train", "b_test", "hyperplane",
          "Xtrain_np", "Xtrain_grad_np", "ytrain_np"}
    [] label = "for" -> {"i"}
    [] OTHER -> {}

\* as if the statement were wrapped in try/except: the exception is
\* swallowed and the cell goes on with the next statement
RaiseCaught(k) ==
  [k EXCEPT !.pc = Goto(framework, k, k.pc), !.error = "Exception"]

\* no cell has a try statement: the exception a library call raises leaves
\* the statement without effect and ends the cell
Raise(k) == [k EXCEPT !.pc = Idle, !.error = "Exception"]

\* the library call of the statement the running cell is at raises
Fail ==
  /\ pc.cell # "idle"
  /\ LET k == Raise(Kernel) IN
       /\ pc' = k.pc
       /\ ns' = k.ns
       /\ figure' = k.figure
       /\ files' = k.files
       /\ calls' = k.calls
       /\ error' = k.error
  /\ UNCHANGED <<framework, stream, history>>

\* the notebook is run in document order until a library call raises
\* no library call has raised so far
NoError == error = ""

NextFail ==
  \/ NoError /\ RunCell
  \/ NoError /\ Imports
  \/ NoError /\ Seed
  \/ NoError /\ MakeBlobs
  \/ NoError /\ TrainTestSplit
  \/ NoError /\ ToTensor
  \/ NoError /\ RequiresGrad
  \/ NoError /\ Shape
  \/ NoError /\ Lambdas
  \/ NoError /\ Declare
  \/ NoError /\ Objective
  \/ NoError /\ Layer
  \/ NoError /\ MkLoss
  \/ NoError /\ TapeEnter
  \/ NoError /\ Call
  \/ NoError /\ TestLoss
  \/ NoError /\ Gradient
  \/ NoError /\ Backward
  \/ NoError /\ ReadGrad
  \/ NoError /\ FitTest
  \/ NoError /\ Extract
  \/ NoError /\ Figure
  \/ NoError /\ ScatterTrue
  \/ NoError /\ ScatterFalse
  \/ NoError /\ For
  \/ NoError /\ Arrow
  \/ NoError /\ Limits
  \/ NoError /\ PlotTrain
  \/ NoError /\ PlotTest
  \/ NoError /\ Legend
  \/ NoError /\ Savefig
  \/ NoError /\ Show
  \/ NoError /\ Fail

SpecFail == Init /\ [][NextFail]_vars

\* the statements of the running cell that have been executed when the cell
\* is at p, and those that are still to be executed, the one at p included
ExecutedLabels(fw, p) ==
  {Program(fw, p.cell)[j] : j \in 1..(p.at - 1)} \cup
  (IF p.it >= 1 THEN {"for"} ELSE {})

RemainingLabels(fw, k, p) ==
  {Program(fw, p.cell)[j] : j \in p.at..Len(Program(fw, p.cell))} \cup
  (IF Program(fw, p.cell)[p.at] = "arrow" /\ p.it < k.ns["m"] THEN {"for"} ELSE {})

AssignedBefore(fw, p) == UNION {Assigns(fw, l) : l \in ExecutedLabels(fw, p)}

AssignedAfter(fw, k, p) == UNION {Assigns(fw, l) : l \in RemainingLabels(fw, k, p)}

\* the kernel when the cell that is running was started
BeforeCell ==
  RunCells(framework, stream, FreshKernel, SubSeq(Cells, 1, Len(history) - 1))

\* the name x is bound alike, or unbound alike, in the two namespaces
SameBinding(x, ns1, ns2) ==
  /\ Defined(ns1, x) <=> Defined(ns2, x)
  /\ Defined(ns1, x) /\ Defined(ns2, x) => ns1[x] = ns2[x]

\* a library call raises in this step
Raised == error = "" /\ error' = "Exception"

-----------------------------------------------------------------------------
(* The adversarial policy of the notebooks' text *)

\* a gradient component lies in -MaxGrad..MaxGrad
MaxGrad == 2

Gradients == [1..n -> (-MaxGrad)..MaxGrad]

\* the coordinates of a training point
Coordinates == -1..1

\* a rational p / q with q > 0 is the pair <<p, q>>
Times(r, c) == <<r[1] * c, r[2]>>

Sum(r, s) == <<r[1] * s[2] + s[1] * r[2], r[2] * s[2]>>

Abs(r) == IF r[1] < 0 THEN <<0 - r[1], r[2]>> ELSE r

Leq(r, s) == r[1] * s[2] <= s[1] * r[2]

\* the bound on the perturbation: 0.01
epsilon == <<1, 100>>

sign(g) == IF g > 0 THEN 1 ELSE IF g < 0 THEN -1 ELSE 0

\* the step in proportion to the gradient: 0.01 * grad
PolicyUnsigned(grad) == [j \in DOMAIN grad |-> Times(epsilon, grad[j])]

\* delta_i = .01 sign(grad_i), componentwise
Policy(grad) == [j \in DOMAIN grad |-> Times(epsilon, sign(grad[j]))]

\* the largest absolute value of a component
InfNorm(delta) ==
  CHOOSE r \in {Abs(delta[j]) : j \in DOMAIN delta} :
    \A j \in DOMAIN delta : Leq(Abs(delta[j]), r)

\* x_i := x_i + delta_i
Perturbed(x, delta) == [j \in DOMAIN x |-> Sum(x[j], delta[j])]

\* a training point x_i and the gradient of the test loss with respect to it
PolicyInit ==
  /\ framework \in Frameworks
  /\ stream = CHOOSE st \in Streams : TRUE
  /\ \E x \in [1..n -> Coordinates], grad \in Gradients :
       ns = BindAll(<<>>, <<
              <<"x_i", [j \in 1..n |-> <<x[j], 1>>]>>,
              <<"grad_i", grad>> >>)
  /\ pc = Idle
  /\ figure = <<>>
  /\ files = {}
  /\ calls = <<>>
  /\ error = ""
  /\ history = <<>>

\* the adversary moves the training point
Perturb ==
  /\ ~Defined(ns, "delta_i")
  /\ ns' = BindAll(ns, <<
             <<"delta_i", Policy(ns["grad_i"])>>,
             <<"x_i", Perturbed(ns["x_i"], Policy(ns["grad_i"]))>> >>)
  /\ UNCHANGED <<framework, stream, pc, figure, files, calls, error, history>>

SpecPolicy == PolicyInit /\ [][Perturb]_vars

\* C12: the perturbation delta_i = 0.01 * sign(grad_i) has infinity norm at
\* most 0.01 whatever the gradient: every component is 0.01 where the
\* gradient component is positive, -0.01 where it is negative, and zero
\* where it is zero.
C12_PolicyWithinBound ==
  Defined(ns, "delta_i") =>
    /\ Leq(InfNorm(ns["delta_i"]), epsilon)
    /\ \A j \in 1..n :
         /\ Leq(Abs(ns["delta_i"][j]), epsilon)
         /\ ns["grad_i"][j] = 0 => ns["delta_i"][j][1] = 0
         /\ ns["grad_i"][j] > 0 => ns["delta_i"][j] = epsilon
         /\ ns["grad_i"][j] < 0 => ns["delta_i"][j] = Times(epsilon, -1)

C12_Witness ==
  /\ Defined(ns, "delta_i")
  /\ \E j \in 1..n : ns["grad_i"][j] = 0 /\ ns["delta_i"][j][1] = 0
  /\ \E j \in 1..n : ns["grad_i"][j] = -MaxGrad
  /\ InfNorm(ns["delta_i"]) = epsilon

-----------------------------------------------------------------------------
(* The gradient cell executed again *)

\* the user executes the gradient cell again at most MaxReruns times
MaxReruns == 2

\* the user executes the gradient cell again; the setup cell is not
\* executed again
Rerun ==
  /\ pc.cell = "idle"
  /\ Count(history, "gradient") >= 1
  /\ Count(history, "gradient") <= MaxReruns
  /\ pc' = StartCell(Kernel, "gradient").pc
  /\ error' = StartCell(Kernel, "gradient").error
  /\ history' = Append(history, "gradient")
  /\ UNCHANGED <<framework, stream, ns, figure, files, calls>>

NextRerun == Next \/ Rerun

SpecRerun == Init /\ [][NextRerun]_vars

\* the kernel after the first execution of the gradient cell
FirstGradient ==
  RunCells(framework, stream, FreshKernel, <<"imports", "setup", "gradient">>)

\* the gradient cell has been executed to its end at least once
GradientCellRan ==
  /\ pc.cell = "idle"
  /\ Count(history, "gradient") >= 1
  /\ error = ""

\* C13: in the torch notebook, however often the gradient cell has been
\* executed since the setup cell, Xtrain_grad is the gradient of a single
\* backward pass: it equals Xtrain_grad after the first execution.
C13_GradOfSinglePass ==
  framework = "torch" /\ GradientCellRan =>
    /\ ns["Xtrain_grad"] = FirstGradient.ns["Xtrain_grad"]
    /\ \A i \in 1..ns["m"], j \in 1..n :
         Len(ns["Xtrain_grad"].val[i][j].d) = 1

\* C14: in the TF notebook every execution of the gradient cell records on
\* a fresh tape that watches Xtrain, and after the k-th execution
\* Xtrain_grad, slope and intercept equal those after the first.
C14_GradientCellIdempotent ==
  framework = "tf" =>
    /\ At("call") =>
         ns["tape"] = [watched |-> TapeWatched, recording |-> TRUE]
    /\ GradientCellRan =>
         /\ \A x \in {"Xtrain_grad", "slope", "intercept", "test_loss"} :
              ns[x] = FirstGradient.ns[x]
         /\ \A i \in 1..ns["m"], j \in 1..n :
              ns["Xtrain_grad"].val[i][j].d = <<ns["test_loss"].val>>

C14_Witness ==
  /\ framework = "tf"
  /\ GradientCellRan
  /\ Count(history, "gradient") = MaxReruns + 1
  /\ ns["Xtrain_grad"] = FirstGradient.ns["Xtrain_grad"]
  /\ Count(calls, "tape.gradient") = MaxReruns + 1

====
